---- MODULE Spec2Model ----
(***************************************************************************)
(* A model of the two command-line tools of tdm-tools:                     *)
(*   - tools/radar_hdfs_cp.py  (the radar image relocator): get_images and *)
(*     main;                                                               *)
(*   - tdm/app/map_to_tree.py  (the dataset-to-tree exporter):             *)
(*     get_geotransform, get_simulation_details, dump_to_tree.             *)
(* Python strings are TLA+ strings, read one character at a time.          *)
(***************************************************************************)
EXTENDS Integers, Sequences, FiniteSets, TLC

VARIABLES
    \* ---- relocator (radar_hdfs_cp.py) ----
    listing,    \* what os.scandir(root) yields, in the order it yields it
    after,      \* get_images' lower bound
    before,     \* get_images' upper bound
    rpc,        \* position in main / get_images
    scanned,    \* number of directory entries the scan loop has consumed
    ls,         \* get_images' local list, then its return value
    nextImg,    \* index in ls of the image main's loop handles next
    copied,     \* the (dt, path) pairs main has copied, in the order it did
    dstDir,     \* does the destination directory exist
    dst,        \* files written at the destination: out_path -> content
    failedOn,   \* the (dt, path) pair whose copy raised, or NoValue
    \* ---- exporter: dump_to_tree (map_to_tree.py) ----
    times,      \* dataset.coords['time'], nanoseconds since the epoch
    epc,        \* position in dump_to_tree
    step,       \* index in times of the time step the outer loop is at
    var,        \* 0 before os.makedirs, else index of the next raster
    dirs,       \* the directories of the file system
    files,      \* the files of the file system: path -> content
    resources,  \* dump_to_tree's local list
    written,    \* the out_paths CreateCopy has written in this run
    run,        \* which run of the exporter on this tree this is
    prevDirs,   \* dirs as this run found them
    prevFiles,  \* files as this run found them
    prevOk,     \* did the previous run on this tree succeed
    efail,      \* what ended this run: NoFailure or [at, error]
    \* ---- exporter: get_simulation_details ----
    cli,        \* the command line: nc_path and the options given
    details,    \* get_simulation_details' result, or NoDetails
    \* ---- exporter: MemMasterBuilder.get_geotransform ----
    lons,       \* dataset.coords['lon']
    lats,       \* dataset.coords['lat']
    geotransform \* MemMasterBuilder.geotransform, or NoValue

relocVars == <<listing, after, before, rpc, scanned, ls, nextImg, copied,
               dstDir, dst, failedOn>>
exportVars == <<times, epc, step, var, dirs, files, resources, written, run,
                prevDirs, prevFiles, prevOk, efail>>
detailVars == <<cli, details>>
geoVars == <<lons, lats, geotransform>>

vars == <<relocVars, exportVars, detailVars, geoVars>>

NoValue == "None"
NoDetails == [none |-> TRUE]
NoFailure == [at |-> "nowhere", error |-> "none"]

-----------------------------------------------------------------------------
(* Bounds of the model *)

MaxEntries == 3
MaxLen == 3
MaxSteps == 2
MaxRuns == 2
MaxCoord == 4

-----------------------------------------------------------------------------
(* Python str helpers *)

Char(s, i) == SubSeq(s, i, i)

\* the characters the model's strings are made of, in code point order
AsciiOrder == " -./0123456789:ABCDEFGHIJKLMNOPQRSTUVWXYZ_abcdefghijklmnopqrstuvwxyz"

\* rank of a character in code point order (str comparison only needs the order)
Ord(c) == CHOOSE i \in 1..Len(AsciiOrder) : Char(AsciiOrder, i) = c

\* str.__lt__: lexicographic by code point, a proper prefix is smaller
RECURSIVE StrLessFrom(_, _, _)
StrLessFrom(a, b, i) ==
    IF i > Len(a) THEN i <= Len(b)
    ELSE IF i > Len(b) THEN FALSE
    ELSE IF Char(a, i) = Char(b, i) THEN StrLessFrom(a, b, i + 1)
    ELSE Ord(Char(a, i)) < Ord(Char(b, i))

StrLess(a, b) == StrLessFrom(a, b, 1)

\* str.rfind(c), 1-based; 0 when c does not occur (Python's -1)
RFind(s, c) ==
    LET hits == {i \in 1..Len(s) : Char(s, i) = c}
    IN  IF hits = {} THEN 0 ELSE CHOOSE i \in hits : \A j \in hits : j <= i

\* s[-n:] for n > 0
LastChars(s, n) == IF Len(s) <= n THEN s ELSE SubSeq(s, Len(s) - n + 1, Len(s))

\* os.path.splitext (genericpath._splitext with sep "/", extsep "."):
\* <<root, ext>>; leading dots of the last component are not an extension
Splitext(p) ==
    LET sepIndex == RFind(p, "/")
        dotIndex == RFind(p, ".")
    IN  IF dotIndex > sepIndex
           /\ \E k \in (sepIndex + 1)..(dotIndex - 1) : Char(p, k) # "."
        THEN <<SubSeq(p, 1, dotIndex - 1), SubSeq(p, dotIndex, Len(p))>>
        ELSE <<p, "">>

IsDigit(c) == c \in {"0", "1", "2", "3", "4", "5", "6", "7", "8", "9"}

DigitVal(c) == Ord(c) - Ord("0")

RECURSIVE ToInt(_)
ToInt(s) ==
    IF s = "" THEN 0
    ELSE 10 * ToInt(SubSeq(s, 1, Len(s) - 1)) + DigitVal(Char(s, Len(s)))

-----------------------------------------------------------------------------
(* datetime: <<year, month, day, hour, minute, second, microsecond>> *)

MIN_DT == <<1, 1, 1, 0, 0, 0, 0>>
MAX_DT == <<9999, 12, 31, 23, 59, 59, 999999>>

\* datetime.__lt__
RECURSIVE TupleLessFrom(_, _, _)
TupleLessFrom(a, b, i) ==
    IF i > Len(a) THEN FALSE
    ELSE IF a[i] = b[i] THEN TupleLessFrom(a, b, i + 1)
    ELSE a[i] < b[i]

DtLess(a, b) == TupleLessFrom(a, b, 1)

IsLeap(y) == (y % 4 = 0) /\ ((y % 100 # 0) \/ (y % 400 = 0))

DaysInMonth(y, m) ==
    IF m = 2 THEN (IF IsLeap(y) THEN 29 ELSE 28)
    ELSE IF m \in {4, 6, 9, 11} THEN 30 ELSE 31

FMT == <<"%Y", "-", "%m", "-", "%d", "_", "%H", ":", "%M", ":", "%S">>
FMT_LEN == 4 + 5 * 3

\* the token lengths a directive's regular expression can take at s[pos..],
\* in the order its alternatives are tried (_strptime.TimeRE)
DirectiveAlts(d, s, pos) ==
    LET c1 == IF pos <= Len(s) THEN Char(s, pos) ELSE ""
        c2 == IF pos + 1 <= Len(s) THEN Char(s, pos + 1) ELSE ""
        two(ok) == IF ok THEN <<2>> ELSE <<>>
        one(ok) == IF ok THEN <<1>> ELSE <<>>
    IN  CASE d = "%Y" ->
                IF pos + 3 <= Len(s)
                   /\ \A k \in pos..(pos + 3) : IsDigit(Char(s, k))
                THEN <<4>> ELSE <<>>
          [] d = "%m" ->
                two(c1 = "1" /\ c2 \in {"0", "1", "2"})
                \o two(c1 = "0" /\ IsDigit(c2) /\ c2 # "0")
                \o one(IsDigit(c1) /\ c1 # "0")
          [] d = "%d" ->
                two(c1 = "3" /\ c2 \in {"0", "1"})
                \o two(c1 \in {"1", "2"} /\ IsDigit(c2))
                \o two(c1 = "0" /\ IsDigit(c2) /\ c2 # "0")
                \o one(IsDigit(c1) /\ c1 # "0")
                \o two(c1 = " " /\ IsDigit(c2) /\ c2 # "0")
          [] d = "%H" ->
                two(c1 = "2" /\ c2 \in {"0", "1", "2", "3"})
                \o two(c1 \in {"0", "1"} /\ IsDigit(c2))
                \o one(IsDigit(c1))
          [] d = "%M" ->
                two(c1 \in {"0", "1", "2", "3", "4", "5"} /\ IsDigit(c2))
                \o one(IsDigit(c1))
          [] d = "%S" ->
                two(c1 = "6" /\ c2 \in {"0", "1"})
                \o two(c1 \in {"0", "1", "2", "3", "4", "5"} /\ IsDigit(c2))
                \o one(IsDigit(c1))

\* the regular expression match of FMT[k..] against s[pos..], with
\* backtracking over the alternatives: the field values, or "ValueError"
RECURSIVE ReMatch(_, _, _, _)
RECURSIVE ReTry(_, _, _, _, _)
ReMatch(s, pos, k, acc) ==
    IF k > Len(FMT)
    THEN (IF pos = Len(s) + 1 THEN acc ELSE "ValueError")
    ELSE IF Len(FMT[k]) = 1
    THEN (IF pos <= Len(s) /\ Char(s, pos) = FMT[k]
          THEN ReMatch(s, pos + 1, k + 1, acc) ELSE "ValueError")
    ELSE ReTry(s, pos, k, acc, DirectiveAlts(FMT[k], s, pos))

ReTry(s, pos, k, acc, alts) ==
    IF alts = <<>> THEN "ValueError"
    ELSE LET n   == Head(alts)
             tok == SubSeq(s, pos, pos + n - 1)
             v   == IF Char(tok, 1) = " " THEN ToInt(SubSeq(tok, 2, n)) ELSE ToInt(tok)
             r   == ReMatch(s, pos + n, k + 1, Append(acc, v))
         IN  IF r # "ValueError" THEN r ELSE ReTry(s, pos, k, acc, Tail(alts))

\* datetime.strptime(dt_string, FMT): a datetime, or "ValueError"
Strptime(s) ==
    LET f == ReMatch(s, 1, 1, <<>>)
    IN  IF f = "ValueError" THEN "ValueError"
        ELSE IF f[1] < 1 \/ f[3] > DaysInMonth(f[1], f[2]) \/ f[6] > 59
        THEN "ValueError"
        ELSE <<f[1], f[2], f[3], f[4], f[5], f[6], 0>>

\* zero-padded decimal of width w
RECURSIVE Pad(_, _)
Pad(n, w) ==
    IF w = 0 THEN ""
    ELSE Pad(n \div 10, w - 1) \o Char("0123456789", (n % 10) + 1)

\* dt.strftime(OUT_FMT), OUT_FMT = "%Y%m%d%H%M%S"
StrftimeOut(dt) ==
    Pad(dt[1], 4) \o Pad(dt[2], 2) \o Pad(dt[3], 2)
    \o Pad(dt[4], 2) \o Pad(dt[5], 2) \o Pad(dt[6], 2)

-----------------------------------------------------------------------------
(* The relocator: tools/radar_hdfs_cp.py *)

\* os.path.join of two components
Join(a, b) ==
    IF Len(b) > 0 /\ Char(b, 1) = "/" THEN b
    ELSE IF a = "" \/ Char(a, Len(a)) = "/" THEN a \o b
    ELSE a \o "/" \o b

\* args.in_dir and the path part of args.out_dir
InDir == "/radar"
OutDir == "/out"

\* the directory entries a listing is drawn from (os.DirEntry: name, is_dir())
Catalogue ==
    { [name |-> "r_2020-01-01_00:00:00.img", is_dir |-> FALSE],
      [name |-> "r_2020-01-02_00:00:00.img", is_dir |-> FALSE],
      [name |-> "garbage.img",               is_dir |-> FALSE],
      [name |-> "a_2020-01-02_00:00:00.png", is_dir |-> FALSE],
      [name |-> "z_2019-12-31_23:59:59.png", is_dir |-> FALSE],
      [name |-> "2020-1-2_3:4:5.png",        is_dir |-> FALSE],
      [name |-> "x_2020-02-30_00:00:00.png", is_dir |-> FALSE],
      [name |-> "d_2020-01-03_00:00:00",     is_dir |-> TRUE] }

\* the listings of a directory: its entries, each once, in any order
Listings ==
    UNION { {l \in [1..n -> Catalogue] :
                \A i, j \in 1..n : i # j => l[i].name # l[j].name}
            : n \in 0..MaxEntries }

\* the bounds a caller of get_images passes: the defaults, or the timestamp
\* of an entry of the catalogue
AfterChoices == {MIN_DT, <<2020, 1, 2, 0, 0, 0, 0>>, <<2020, 1, 2, 3, 4, 5, 0>>}
BeforeChoices == {<<2020, 1, 2, 0, 0, 0, 0>>, <<2020, 1, 2, 3, 4, 5, 0>>, MAX_DT}

\* `dt < after or dt > before` (OutOfBoundsStrict: the variant that also
\* drops a dt equal to a bound)
OutOfBoundsStrict(dt, aft, bef) == ~DtLess(aft, dt) \/ ~DtLess(dt, bef)
OutOfBounds(dt, aft, bef) == DtLess(dt, aft) \/ DtLess(bef, dt)

\* `except ValueError: continue` (OnValueErrorRaise: the variant without
\* the except clause)
OnValueErrorRaise(acc) == [ls |-> acc, raised |-> TRUE]
OnValueError(acc) == [ls |-> acc, raised |-> FALSE]

\* one iteration of get_images' loop over os.scandir(root)
ScanBody(acc, entry, aft, bef) ==
    IF entry.is_dir THEN [ls |-> acc, raised |-> FALSE]
    ELSE LET dt_string == LastChars(Splitext(entry.name)[1], FMT_LEN)
             dt == Strptime(dt_string)
         IN  IF dt = "ValueError" THEN OnValueError(acc)
             ELSE IF OutOfBounds(dt, aft, bef) THEN [ls |-> acc, raised |-> FALSE]
             ELSE [ls |-> Append(acc, <<dt, Join(InDir, entry.name)>>),
                   raised |-> FALSE]

\* tuple.__lt__ on (dt, path) pairs (PairLessDtOnly: the variant that
\* compares the timestamps alone, as ls.sort(key=...) on dt would)
PairLessDtOnly(a, b) == DtLess(a[1], b[1])
PairLess(a, b) ==
    IF a[1] # b[1] THEN DtLess(a[1], b[1]) ELSE StrLess(a[2], b[2])

\* insert x into the sorted list l, after the elements not greater than it
RECURSIVE Insert(_, _)
Insert(l, x) ==
    IF l = <<>> THEN <<x>>
    ELSE IF PairLess(x, Head(l)) THEN <<x>> \o l
    ELSE <<Head(l)>> \o Insert(Tail(l), x)

RECURSIVE SortStable(_)
SortStable(l) ==
    IF l = <<>> THEN <<>>
    ELSE Insert(SortStable(SubSeq(l, 1, Len(l) - 1)), l[Len(l)])

\* ls.sort() (SortNone: the variant that returns ls in scan order)
SortNone(l) == l
Sort(l) == SortStable(l)

\* join(out_dir, f"{dt.strftime(OUT_FMT)}.png")
OutPath(dt) == Join(OutDir, StrftimeOut(dt) \o ".png")

\* the file at out_path after a write of content c
Write(fs, path, c) ==
    [p \in DOMAIN fs \cup {path} |-> IF p = path THEN c ELSE fs[p]]

\* fs.create_directory(out_dir): the directory exists afterwards
CreateDirectoryEffect(exists) == TRUE

\* an exception raised inside main's loop is not caught: the run ends
\* (OnCopyErrorSkip: the variant that skips the image and goes on)
OnCopyErrorSkip == "copy"
OnCopyError == "failed"

\* the parts of the state a tool does not use
IdleReloc ==
    /\ listing = <<>> /\ after = MIN_DT /\ before = MAX_DT /\ rpc = "idle"
    /\ scanned = 0 /\ ls = <<>> /\ nextImg = 1 /\ copied = <<>>
    /\ dstDir = FALSE /\ dst = <<>> /\ failedOn = NoValue
IdleExport ==
    /\ times = <<>> /\ epc = "idle" /\ step = 1 /\ var = 0 /\ dirs = {}
    /\ files = <<>> /\ resources = <<>> /\ written = <<>> /\ run = 1
    /\ prevDirs = {} /\ prevFiles = <<>> /\ prevOk = FALSE /\ efail = NoFailure
IdleDetails == cli = NoValue /\ details = NoDetails
IdleGeo == lons = <<>> /\ lats = <<>> /\ geotransform = NoValue

InitReloc(pc0, dirStates) ==
    /\ IdleExport /\ IdleDetails /\ IdleGeo
    /\ listing \in Listings
    /\ rpc = pc0
    /\ scanned = 0
    /\ ls = <<>>
    /\ nextImg = 1
    /\ copied = <<>>
    /\ dstDir \in dirStates
    /\ dst = <<>>
    /\ failedOn = NoValue

\* main(args): get_images is called with the default bounds
InitMain ==
    /\ InitReloc("start", BOOLEAN)
    /\ after = MIN_DT
    /\ before = MAX_DT

\* a direct call get_images(root, after, before)
InitGetImages ==
    /\ InitReloc("scan", {FALSE})
    /\ after \in AfterChoices
    /\ before \in BeforeChoices

\* hdfs.path.split, hdfs.hdfs(host, port), fs.create_directory(out_dir)
CreateDirectory ==
    /\ rpc = "start"
    /\ dstDir' = CreateDirectoryEffect(dstDir)
    /\ rpc' = "scan"
    /\ UNCHANGED <<listing, after, before, scanned, ls, nextImg, copied, dst, failedOn>>
    /\ UNCHANGED <<exportVars, detailVars, geoVars>>

\* the connection or the directory creation raises
CreateDirectoryFail ==
    /\ rpc = "start"
    /\ rpc' = "failed"
    /\ UNCHANGED <<listing, after, before, scanned, ls, nextImg, copied, dstDir, dst, failedOn>>
    /\ UNCHANGED <<exportVars, detailVars, geoVars>>

\* get_images: one entry of os.scandir(root)
ScanEntry ==
    /\ rpc = "scan"
    /\ scanned < Len(listing)
    /\ LET r == ScanBody(ls, listing[scanned + 1], after, before)
       IN  /\ ls' = r.ls
           /\ rpc' = IF r.raised THEN "raised" ELSE "scan"
    /\ scanned' = scanned + 1
    /\ UNCHANGED <<listing, after, before, nextImg, copied, dstDir, dst, failedOn>>
    /\ UNCHANGED <<exportVars, detailVars, geoVars>>

\* get_images: the loop is over; ls.sort(); return ls
ScanReturn(pc1) ==
    /\ rpc = "scan"
    /\ scanned = Len(listing)
    /\ ls' = Sort(ls)
    /\ rpc' = pc1
    /\ UNCHANGED <<listing, after, before, scanned, nextImg, copied, dstDir, dst, failedOn>>
    /\ UNCHANGED <<exportVars, detailVars, geoVars>>

GetImagesReturn == ScanReturn("returned")
GetImagesReturnToMain == ScanReturn("copy")

\* main: one iteration of the loop, the copy succeeds
CopyOk ==
    /\ rpc = "copy"
    /\ nextImg <= Len(ls)
    /\ LET e == ls[nextImg]
       IN  /\ dst' = Write(dst, OutPath(e[1]), e[2])
           /\ copied' = Append(copied, e)
    /\ nextImg' = nextImg + 1
    /\ UNCHANGED <<listing, after, before, rpc, scanned, ls, dstDir, failedOn>>
    /\ UNCHANGED <<exportVars, detailVars, geoVars>>

\* main: io.open(path, "rb") or fs.open_file(out_path, "wb") raises
CopyOpenFail ==
    /\ rpc = "copy"
    /\ nextImg <= Len(ls)
    /\ failedOn' = ls[nextImg]
    /\ rpc' = OnCopyError
    /\ nextImg' = nextImg + 1
    /\ UNCHANGED <<listing, after, before, scanned, ls, copied, dstDir, dst>>
    /\ UNCHANGED <<exportVars, detailVars, geoVars>>

\* main: fi.read() or fo.write() raises; out_path is already open for
\* writing, so it is left created or truncated, with part of the data at most
CopyTransferFail ==
    /\ rpc = "copy"
    /\ nextImg <= Len(ls)
    /\ failedOn' = ls[nextImg]
    /\ dst' = Write(dst, OutPath(ls[nextImg][1]), "partial")
    /\ rpc' = OnCopyError
    /\ nextImg' = nextImg + 1
    /\ UNCHANGED <<listing, after, before, scanned, ls, copied, dstDir>>
    /\ UNCHANGED <<exportVars, detailVars, geoVars>>

\* main: the loop is over
MainReturn ==
    /\ rpc = "copy"
    /\ nextImg > Len(ls)
    /\ rpc' = "done"
    /\ UNCHANGED <<listing, after, before, scanned, ls, nextImg, copied, dstDir, dst, failedOn>>
    /\ UNCHANGED <<exportVars, detailVars, geoVars>>

NextMain ==
    \/ CreateDirectory
    \/ CreateDirectoryFail
    \/ ScanEntry
    \/ GetImagesReturnToMain
    \/ CopyOk
    \/ CopyOpenFail
    \/ CopyTransferFail
    \/ MainReturn

NextGetImages ==
    \/ ScanEntry
    \/ GetImagesReturn

SpecMain == InitMain /\ [][NextMain]_vars
SpecGetImages == InitGetImages /\ [][NextGetImages]_vars

-----------------------------------------------------------------------------
(* The exporter: tdm/app/map_to_tree.py, get_simulation_details *)

\* os.path.basename
Basename(p) == SubSeq(p, RFind(p, "/") + 1, Len(p))

\* str.split(sep) for a one-character sep: the tokens, empty ones included
RECURSIVE SplitFrom(_, _, _, _)
SplitFrom(s, sep, i, tok) ==
    IF i > Len(s) THEN <<tok>>
    ELSE IF Char(s, i) = sep THEN <<tok>> \o SplitFrom(s, sep, i + 1, "")
    ELSE SplitFrom(s, sep, i + 1, tok \o Char(s, i))

Split(s, sep) == SplitFrom(s, sep, 1, "")

\* sep.join(parts)
RECURSIVE JoinWith(_, _)
JoinWith(sep, parts) ==
    IF parts = <<>> THEN ""
    ELSE IF Len(parts) = 1 THEN parts[1]
    ELSE parts[1] \o sep \o JoinWith(sep, Tail(parts))

\* parts[1:-1]
Middle(parts) == SubSeq(parts, 2, Len(parts) - 1)

\* the truth value of an option: None and "" are false
Truthy(x) == x # NoValue /\ x # ""

\* the input files and option values a command line is drawn from
NcPaths == {"moloch_foo_bar_001.nc", "/in/wrf_x_7.nc", "single.nc", "a_b.nc",
            "run.v2_sim_009.nc"}
GroupOptions == {NoValue, "", "radar"}
ClassOptions == {NoValue, "", "bolam"}
UidOptions == {NoValue, "", "42"}

\* add_parser: the namespace argparse builds; an option that is not given
\* takes its default (None unless add_argument names one)
ParseArgs(c) ==
    [nc_path       |-> c.nc_path,
     out_dir       |-> "/data",
     product_group |-> IF c.product_group = NoValue THEN "meteosim" ELSE c.product_group,
     product_class |-> c.product_class,
     instance_uid  |-> c.instance_uid,
     url_root      |-> "https://rest.tdm-project.it"]

\* `opt if opt else value` (OverrideIgnored: the variant that never takes
\* the option)
OverrideIgnored(opt, value) == value
Override(opt, value) == IF Truthy(opt) THEN opt ELSE value

\* to_datetime: nanoseconds since the epoch to '%Y-%m-%d_%H:%M:%S' (UTC).
\* utcfromtimestamp rounds to the nearest microsecond, half to even;
\* strftime drops the microseconds.
RoundHalfEven(n, d) ==
    LET q == n \div d
        r == n % d
    IN  IF 2 * r > d \/ (2 * r = d /\ q % 2 = 1) THEN q + 1 ELSE q

\* the civil date <<y, m, d>> of a day number counted from 1970-01-01
CivilFromDays(z0) ==
    LET z   == z0 + 719468
        era == z \div 146097
        doe == z - era * 146097
        yoe == (doe - doe \div 1460 + doe \div 36524 - doe \div 146096) \div 365
        doy == doe - (365 * yoe + yoe \div 4 - yoe \div 100)
        mp  == (5 * doy + 2) \div 153
        d   == doy - (153 * mp + 2) \div 5 + 1
        m   == IF mp < 10 THEN mp + 3 ELSE mp - 9
        y   == yoe + era * 400 + (IF m <= 2 THEN 1 ELSE 0)
    IN  <<y, m, d>>

ToDatetime(t) ==
    LET us   == RoundHalfEven(t, 1000)
        secs == us \div 1000000
        date == CivilFromDays(secs \div 86400)
        sod  == secs % 86400
    IN  Pad(date[1], 4) \o "-" \o Pad(date[2], 2) \o "-" \o Pad(date[3], 2) \o "_"
        \o Pad(sod \div 3600, 2) \o ":" \o Pad((sod % 3600) \div 60, 2) \o ":"
        \o Pad(sod % 60, 2)

\* to_coord_range of the grid the model exports: lon 4.5, 6.0, 7.5 and
\* lat 36.0, 37.0, 38.0
LonRange == "4.5:3:1"
LatRange == "36.0:3:0.667"

\* get_simulation_details(args, dataset)
GetSimulationDetails(args, ts) ==
    LET basename == Splitext(Basename(args.nc_path))[1]
        parts    == Split(basename, "_")
        pclass   == parts[1]
        puid     == parts[Len(parts)]
        pname    == JoinWith("_", Middle(parts))
    IN  [group      |-> Override(args.product_group, "simulation"),
         class      |-> Override(args.product_class, pclass),
         name       |-> pname,
         uid        |-> Override(args.instance_uid, puid),
         path       |-> args.nc_path,
         start_time |-> ToDatetime(ts[1]),
         end_time   |-> ToDatetime(ts[Len(ts)]),
         lon_range  |-> LonRange,
         lat_range  |-> LatRange]

\* the time coordinate of the dataset get_simulation_details is applied to
DetailTimes == <<0, 1000000000>>

InitDetails ==
    /\ IdleReloc /\ IdleExport /\ IdleGeo
    /\ cli \in [nc_path : NcPaths, product_group : GroupOptions,
                product_class : ClassOptions, instance_uid : UidOptions]
    /\ details = NoDetails

\* main: simulation_details = get_simulation_details(args, dataset)
GetDetails ==
    /\ details = NoDetails
    /\ details' = GetSimulationDetails(ParseArgs(cli), DetailTimes)
    /\ UNCHANGED <<cli, relocVars, exportVars, geoVars>>

NextDetails == GetDetails

SpecDetails == InitDetails /\ [][NextDetails]_vars

-----------------------------------------------------------------------------
(* The exporter: MemMasterBuilder.get_geotransform *)

\* a / n, true division: the quotient as a fraction
TrueDiv(a, n) == [num |-> a, den |-> n]
Neg(q) == [num |-> 0 - q.num, den |-> q.den]

\* get_geotransform(lons, lats) (GetGeotransformNoFlip: the variant with
\* the origin at lats[0] and the height not negated)
GetGeotransformNoFlip(lo, la) ==
    <<lo[1], TrueDiv(lo[Len(lo)] - lo[1], Len(lo)), 0,
      la[1], 0, TrueDiv(la[Len(la)] - la[1], Len(la))>>
GetGeotransform(lo, la) ==
    <<lo[1], TrueDiv(lo[Len(lo)] - lo[1], Len(lo)), 0,
      la[Len(la)], 0, Neg(TrueDiv(la[Len(la)] - la[1], Len(la)))>>

\* the (strictly) ascending coordinate vectors of a grid
AscendingVectors ==
    UNION { {v \in [1..n -> 0..MaxCoord] : \A i \in 1..(n - 1) : v[i] < v[i + 1]}
            : n \in 1..MaxLen }

InitGeo ==
    /\ IdleReloc /\ IdleExport /\ IdleDetails
    /\ lons \in AscendingVectors
    /\ lats \in AscendingVectors
    /\ geotransform = NoValue

\* MemMasterBuilder.__init__: self.geotransform = self.get_geotransform(...)
BuildGeotransform ==
    /\ geotransform = NoValue
    /\ geotransform' = GetGeotransform(lons, lats)
    /\ UNCHANGED <<lons, lats, relocVars, exportVars, detailVars>>

NextGeo == BuildGeotransform

SpecGeo == InitGeo /\ [][NextGeo]_vars

-----------------------------------------------------------------------------
(* The exporter: tdm/app/map_to_tree.py, dump_to_tree *)

\* the command line of the runs the model exports: no option given
ExportArgs ==
    ParseArgs([nc_path |-> "moloch_foo_bar_001.nc", product_group |-> NoValue,
               product_class |-> NoValue, instance_uid |-> NoValue])

\* the time coordinates a dataset is drawn from; 999999999 ns and
\* 1000000000 ns are different time steps with the same to_datetime
TimeValues == {0, 999999999, 1000000000}

\* a dataset's time coordinate: distinct values, in any order
TimeVectors ==
    UNION { {v \in [1..n -> TimeValues] : \A i, j \in 1..n : i # j => v[i] # v[j]}
            : n \in 1..MaxSteps }

SimulationDetails == GetSimulationDetails(ExportArgs, times)

RECURSIVE JoinAll(_)
JoinAll(parts) ==
    IF Len(parts) = 1 THEN parts[1]
    ELSE Join(JoinAll(SubSeq(parts, 1, Len(parts) - 1)), parts[Len(parts)])

\* PathBuilder.__init__
ProductRoot(dir_root, desc) ==
    JoinAll(<<dir_root, "tdm/odata/product", desc.group, desc.class, desc.name, desc.uid>>)

\* PathBuilder.build(*args)
PathBuild(desc, args) == JoinAll(<<ProductRoot(ExportArgs.out_dir, desc)>> \o args)

\* lonlat = '_'.join(simulation_details[x + '_range'] for x in ['lon', 'lat'])
LonLat(desc) == JoinWith("_", <<desc.lon_range, desc.lat_range>>)

\* the four rasters of a time step, in the order the inner loop writes them
\* (RastersNoWind: the variant without the wind raster)
RastersNoWind ==
    << [fname |-> "tcov",   desc |-> "Total cloud coverage [percent]",  bands |-> 1],
       [fname |-> "tprec",  desc |-> "Total precipitation [kg/m^2]",    bands |-> 1],
       [fname |-> "temp2m", desc |-> "Temperature 2m above ground [C]", bands |-> 1] >>
Rasters ==
    << [fname |-> "tcov",   desc |-> "Total cloud coverage [percent]",  bands |-> 1],
       [fname |-> "tprec",  desc |-> "Total precipitation [kg/m^2]",    bands |-> 1],
       [fname |-> "temp2m", desc |-> "Temperature 2m above ground [C]", bands |-> 1],
       [fname |-> "uv10",   desc |-> "Wind velocity at 10m [m/s]",      bands |-> 2] >>

\* the path and every ancestor of it that is not the file system's root
PathAndAncestors(path) ==
    {SubSeq(path, 1, i - 1) : i \in {k \in 2..Len(path) : Char(path, k) = "/"}}
        \cup {path}

\* os.makedirs(path, exist_ok=...): the directories afterwards, or the error
\* (ExistOkFalse: the variant that calls it without exist_ok)
ExistOkFalse == FALSE
ExistOk == TRUE

MakeDirs(ds, fs, path, exist_ok) ==
    IF path \in DOMAIN fs \/ (path \in ds /\ ~exist_ok)
    THEN [dirs |-> ds, error |-> "FileExistsError"]
    ELSE [dirs |-> ds \cup PathAndAncestors(path), error |-> "none"]

\* urljoin(url_root, out_path) for a url_root without a path
Urljoin(base, path) ==
    IF Char(path, 1) = "/" THEN base \o path ELSE base \o "/" \o path

\* create_res_description(name, desc, url, dt, lonlat, fname); os.stat(fname)
\* is the file as it was just written
CreateResDescription(name, desc, url, stat) ==
    [name |-> name, description |-> desc, url |-> url, format |-> "TIFF",
     mimetype |-> "image/tiff", stat |-> stat]

\* the directory of time step k
StepPath(k) == PathBuild(SimulationDetails, <<ToDatetime(times[k]), LonLat(SimulationDetails)>>)

\* os.path.join(path, "%s.tif" % fname)
RasterPath(k, v) == Join(StepPath(k), Rasters[v].fname \o ".tif")

\* desc_path = pbuilder.build("description.json")
DescPath == PathBuild(SimulationDetails, <<"description.json">>)

\* the manifest is written when the loop over the time steps is over
\* (ManifestAfterFirstStep: the variant that writes it inside the loop)
ManifestAfterFirstStep(k) == k > 1
ManifestDue(k) == k > Len(times)

InitExport ==
    /\ IdleReloc /\ IdleDetails /\ IdleGeo
    /\ times \in TimeVectors
    /\ epc = "loop"
    /\ step = 1
    /\ var = 0
    /\ dirs = {ExportArgs.out_dir}
    /\ files = <<>>
    /\ resources = <<>>
    /\ written = <<>>
    /\ run = 1
    /\ prevDirs = {ExportArgs.out_dir}
    /\ prevFiles = <<>>
    /\ prevOk = FALSE
    /\ efail = NoFailure

\* the outer loop enters a time step: dataset.sel, to_datetime,
\* pbuilder.build, os.makedirs(path, exist_ok=True)
EnterStep ==
    /\ epc = "loop"
    /\ ~ManifestDue(step)
    /\ step <= Len(times)
    /\ var = 0
    /\ LET r == MakeDirs(dirs, files, StepPath(step), ExistOk)
       IN  /\ dirs' = r.dirs
           /\ IF r.error = "none"
              THEN /\ var' = 1
                   /\ UNCHANGED <<epc, efail>>
              ELSE /\ epc' = "failed"
                   /\ efail' = [at |-> "loop", error |-> r.error]
                   /\ UNCHANGED var
    /\ UNCHANGED <<times, step, files, resources, written, run, prevDirs, prevFiles, prevOk>>
    /\ UNCHANGED <<relocVars, detailVars, geoVars>>

\* os.makedirs raises for a reason of the environment (permissions, a full
\* disk); the directories it had made on the way stay
EnterStepFail ==
    /\ epc = "loop"
    /\ ~ManifestDue(step)
    /\ step <= Len(times)
    /\ var = 0
    /\ \E made \in SUBSET (PathAndAncestors(StepPath(step)) \ dirs) :
          /\ \A d \in made : PathAndAncestors(d) \subseteq made \cup dirs
          /\ made # PathAndAncestors(StepPath(step)) \ dirs
          /\ dirs' = dirs \cup made
    /\ epc' = "failed"
    /\ efail' = [at |-> "loop", error |-> "OSError"]
    /\ UNCHANGED <<times, step, var, files, resources, written, run, prevDirs, prevFiles, prevOk>>
    /\ UNCHANGED <<relocVars, detailVars, geoVars>>

\* one iteration of the inner loop: rbuilder.build, out_driver.CreateCopy,
\* urljoin, create_res_description, resources.append, print
WriteRaster ==
    /\ epc = "loop"
    /\ var >= 1
    /\ LET out_path == RasterPath(step, var)
           content  == [kind |-> "tiff", bands |-> Rasters[var].bands,
                        datetime |-> ToDatetime(times[step]), time |-> times[step],
                        run |-> run]
           url      == Urljoin(ExportArgs.url_root, out_path)
       IN  /\ files' = Write(files, out_path, content)
           /\ written' = Append(written, out_path)
           /\ resources' = Append(resources,
                  CreateResDescription(Rasters[var].fname, Rasters[var].desc, url, content))
    /\ IF var < Len(Rasters)
       THEN /\ var' = var + 1
            /\ UNCHANGED step
       ELSE /\ var' = 0
            /\ step' = step + 1
    /\ UNCHANGED <<times, epc, dirs, run, prevDirs, prevFiles, prevOk, efail>>
    /\ UNCHANGED <<relocVars, detailVars, geoVars>>

\* rbuilder.build or out_driver.CreateCopy raises: out_path is as it was,
\* or is left created or truncated with part of the image at most
WriteRasterFail ==
    /\ epc = "loop"
    /\ var >= 1
    /\ \/ UNCHANGED files
       \/ files' = Write(files, RasterPath(step, var), [kind |-> "partial", run |-> run])
    /\ epc' = "failed"
    /\ efail' = [at |-> "loop", error |-> "RuntimeError"]
    /\ UNCHANGED <<times, step, var, dirs, resources, written, run, prevDirs, prevFiles, prevOk>>
    /\ UNCHANGED <<relocVars, detailVars, geoVars>>

\* after the loop: the manifest is written to desc_path
WriteManifest ==
    /\ epc = "loop"
    /\ var = 0
    /\ ManifestDue(step)
    /\ files' = Write(files, DescPath,
                      [kind |-> "manifest", run |-> run,
                       description |-> SimulationDetails,
                       result |-> [resources |-> resources]])
    /\ epc' = "done"
    /\ UNCHANGED <<times, step, var, dirs, resources, written, run, prevDirs, prevFiles, prevOk, efail>>
    /\ UNCHANGED <<relocVars, detailVars, geoVars>>

\* io.open(desc_path, "wt") or f.write raises
WriteManifestFail ==
    /\ epc = "loop"
    /\ var = 0
    /\ ManifestDue(step)
    /\ \/ UNCHANGED files
       \/ files' = Write(files, DescPath, [kind |-> "partial", run |-> run])
    /\ epc' = "failed"
    /\ efail' = [at |-> "manifest", error |-> "OSError"]
    /\ UNCHANGED <<times, step, var, dirs, resources, written, run, prevDirs, prevFiles, prevOk>>
    /\ UNCHANGED <<relocVars, detailVars, geoVars>>

\* the exporter is run again, with the same dataset and options, on the
\* tree the run before has left
Rerun ==
    /\ epc \in {"done", "failed"}
    /\ run < MaxRuns
    /\ run' = run + 1
    /\ prevOk' = (epc = "done")
    /\ prevDirs' = dirs
    /\ prevFiles' = files
    /\ epc' = "loop"
    /\ step' = 1
    /\ var' = 0
    /\ resources' = <<>>
    /\ written' = <<>>
    /\ efail' = NoFailure
    /\ UNCHANGED <<times, dirs, files>>
    /\ UNCHANGED <<relocVars, detailVars, geoVars>>

NextExport ==
    \/ EnterStep
    \/ EnterStepFail
    \/ WriteRaster
    \/ WriteRasterFail
    \/ WriteManifest
    \/ WriteManifestFail
    \/ Rerun

SpecExport == InitExport /\ [][NextExport]_vars

-----------------------------------------------------------------------------
(* Properties of the relocator *)

Range(f) == {f[i] : i \in DOMAIN f}

\* chronological order read off the fixed-width rendering of a datetime
DtKey(dt) == StrftimeOut(dt) \o Pad(dt[7], 6)
ChronoLeq(a, b) == ~StrLess(DtKey(b), DtKey(a))

\* what the scan should make of a directory entry: its (timestamp, path)
\* pair, or NoValue for a directory or a name that does not parse
EntryPair(e) ==
    LET dt == Strptime(LastChars(Splitext(e.name)[1], FMT_LEN))
    IN  IF e.is_dir \/ dt = "ValueError" THEN NoValue ELSE <<dt, Join(InDir, e.name)>>

InBounds(dt) == ChronoLeq(after, dt) /\ ChronoLeq(dt, before)

\* C1: in main, nothing is copied before get_images has consumed the whole
\* directory and returned, and the copies are made in ascending order of
\* timestamp: of any two copies, the earlier one has the timestamp that is
\* not later.
C1_CopiesAfterScanInTimestampOrder ==
    /\ rpc \in {"start", "scan"} => copied = <<>> /\ dst = <<>> /\ failedOn = NoValue
    /\ (copied # <<>> \/ dst # <<>> \/ failedOn # NoValue) => scanned = Len(listing)
    /\ \A i, j \in 1..Len(copied) :
          i < j => ChronoLeq(copied[i][1], copied[j][1])

\* C1 witness: a finished run whose three copies were made in timestamp order
\* although the directory listed a later image before an earlier one.
C1_Witness ==
    /\ rpc = "done"
    /\ Len(copied) = 3
    /\ listing[1].name = "r_2020-01-02_00:00:00.img"
    /\ listing[2].name = "z_2019-12-31_23:59:59.png"
    /\ copied[1][2] = "/radar/z_2019-12-31_23:59:59.png"

\* C3: get_images(root, after, before) returns a parseable non-directory entry
\* with timestamp dt if and only if after <= dt <= before (both ends kept);
\* with the default bounds no parseable entry is left out.
C3_BoundsInclusive ==
    rpc = "returned" =>
        \A i \in DOMAIN listing :
            LET pr == EntryPair(listing[i])
            IN  pr # NoValue =>
                    /\ pr \in Range(ls) <=> InBounds(pr[1])
                    /\ (after = MIN_DT /\ before = MAX_DT) => pr \in Range(ls)

\* C3 witness: after = before = 2020-01-02 00:00:00; the 2020-01-01 entry is
\* left out and the 2020-01-02 entry, equal to both bounds, is kept.
C3_Witness ==
    /\ rpc = "returned"
    /\ after = <<2020, 1, 2, 0, 0, 0, 0>>
    /\ before = <<2020, 1, 2, 0, 0, 0, 0>>
    /\ {"r_2020-01-01_00:00:00.img", "r_2020-01-02_00:00:00.img"}
          \subseteq {e.name : e \in Range(listing)}
    /\ "/radar/r_2020-01-02_00:00:00.img" \in {e[2] : e \in Range(ls)}
    /\ "/radar/r_2020-01-01_00:00:00.img" \notin {e[2] : e \in Range(ls)}

\* C4: a directory, or a file whose timestamp suffix does not parse, is
\* dropped by the scan without an error: the scan never raises, and it
\* returns exactly one (timestamp, path) entry per remaining in-bounds file;
\* two well-named files and garbage.img give exactly two entries, ascending.
C4_UnparsableDropped ==
    /\ rpc \in {"scan", "returned"}
    /\ rpc = "returned" =>
          LET pairs == [i \in DOMAIN listing |-> EntryPair(listing[i])]
              kept  == {i \in DOMAIN listing :
                            pairs[i] # NoValue /\ InBounds(pairs[i][1])}
          IN  /\ Len(ls) = Cardinality(kept)
              /\ \A i, j \in 1..Len(ls) : i # j => ls[i] # ls[j]
              /\ \A i \in 1..Len(ls) : \E k \in kept : ls[i] = pairs[k]
              /\ ({e.name : e \in Range(listing)}
                     = {"r_2020-01-01_00:00:00.img", "r_2020-01-02_00:00:00.img",
                        "garbage.img"}
                  /\ after = MIN_DT /\ before = MAX_DT)
                 => ls = << <<<<2020, 1, 1, 0, 0, 0, 0>>, "/radar/r_2020-01-01_00:00:00.img">>,
                            <<<<2020, 1, 2, 0, 0, 0, 0>>, "/radar/r_2020-01-02_00:00:00.img">> >>

\* C4 witness: the scan of garbage.img, a directory with a well-formed name
\* and one well-named file has returned one entry.
C4_Witness ==
    /\ rpc = "returned"
    /\ Len(listing) = 3
    /\ listing[1].name = "garbage.img"
    /\ listing[2].name = "d_2020-01-03_00:00:00"
    /\ listing[3].name = "r_2020-01-01_00:00:00.img"
    /\ Len(ls) = 1

\* the path of the last of the copies made for timestamp dt
LastCopiedFor(dt) ==
    LET idx == {k \in 1..Len(copied) : copied[k][1] = dt}
    IN  copied[CHOOSE k \in idx : \A m \in idx : m <= k][2]

\* the position in ls of the image whose copy failed
FailedIndex == CHOOSE i \in 1..Len(ls) : ls[i] = failedOn

\* C9 as stated: once a copy has failed the run is over, no later image is
\* copied, the destination directory exists, and every image earlier in the
\* sort order is still copied at the destination.
C9_EarlierImagesRemainCopied ==
    failedOn # NoValue =>
        /\ rpc = "failed"
        /\ copied = SubSeq(ls, 1, FailedIndex - 1)
        /\ dstDir
        /\ \A j \in 1..Len(copied) :
              /\ OutPath(copied[j][1]) \in DOMAIN dst
              /\ dst[OutPath(copied[j][1])] = copied[j][2]

\* C9 amended: once a copy has failed the run is over, no later image is
\* copied, and the destination directory existed before any copy; nothing is
\* cleaned up: the destination file of every earlier image is still there
\* and holds the last copy made under that name, except that the file named
\* by the failing image's own timestamp may be left truncated.
C9_FailureIsFatalNoCleanup ==
    /\ (copied # <<>> \/ failedOn # NoValue) => dstDir
    /\ failedOn # NoValue =>
        /\ rpc = "failed"
        /\ copied = SubSeq(ls, 1, FailedIndex - 1)
        /\ \A j \in 1..Len(copied) :
              /\ OutPath(copied[j][1]) \in DOMAIN dst
              /\ IF copied[j][1] = failedOn[1]
                 THEN dst[OutPath(copied[j][1])] \in {LastCopiedFor(copied[j][1]), "partial"}
                 ELSE dst[OutPath(copied[j][1])] = LastCopiedFor(copied[j][1])

\* C9 witness: the second of three images failed; the first is at the
\* destination and the third was never copied.
C9_Witness ==
    /\ failedOn # NoValue
    /\ rpc = "failed"
    /\ Len(ls) = 3
    /\ Len(copied) = 1
    /\ dst[OutPath(copied[1][1])] = copied[1][2]

\* the greatest path among the scanned entries with timestamp dt
GreatestPathFor(dt) ==
    LET ps == {e[2] : e \in {x \in Range(ls) : x[1] = dt}}
    IN  CHOOSE p \in ps : \A q \in ps : ~StrLess(p, q)

\* C10: the destination name depends only on the timestamp: after a
\* successful run there are as many destination files as distinct timestamps
\* among the scanned entries; entries sharing a timestamp are copied in
\* ascending order of path, onto one name, which ends up holding the content
\* of the source with the greatest path.
C10_OneFilePerTimestamp ==
    /\ \A i, j \in 1..Len(copied) :
          (i < j /\ copied[i][1] = copied[j][1]) =>
              /\ StrLess(copied[i][2], copied[j][2])
              /\ OutPath(copied[i][1]) = OutPath(copied[j][1])
    /\ rpc = "done" =>
          /\ Cardinality(DOMAIN dst) = Cardinality({e[1] : e \in Range(ls)})
          /\ \A e \in Range(ls) :
                /\ OutPath(e[1]) \in DOMAIN dst
                /\ dst[OutPath(e[1])] = GreatestPathFor(e[1])

\* C10 witness: a finished run over two files of one timestamp, listed with
\* the greater path first, left one destination file.
C10_Witness ==
    /\ rpc = "done"
    /\ Len(ls) = 2
    /\ listing[1].name = "r_2020-01-02_00:00:00.img"
    /\ listing[2].name = "a_2020-01-02_00:00:00.png"
    /\ Cardinality(DOMAIN dst) = 1
    /\ dst["/out/20200102000000.png"] = "/radar/r_2020-01-02_00:00:00.img"

-----------------------------------------------------------------------------
(* Properties of get_simulation_details and get_geotransform *)

Positive(q) == q.num * q.den > 0
Negative(q) == q.num * q.den < 0

\* C6 as stated: for any ascending lons and lats the geotransform has a
\* positive pixel width, a negative pixel height, origin lons[0] and
\* lats[-1], and zero rotation terms.
C6_GeotransformAnyAscending ==
    geotransform # NoValue =>
        /\ Positive(geotransform[2])
        /\ Negative(geotransform[6])
        /\ geotransform[1] = lons[1]
        /\ geotransform[4] = lats[Len(lats)]
        /\ geotransform[3] = 0
        /\ geotransform[5] = 0

\* C6 amended: for any strictly ascending lons and lats the geotransform has origin
\* lons[0] and lats[-1] and zero rotation terms; its pixel width is positive
\* when lons has at least two elements and its pixel height is negative when
\* lats has at least two elements (with one element the size is zero).
C6_GeotransformAtLeastTwo ==
    geotransform # NoValue =>
        /\ geotransform[1] = lons[1]
        /\ geotransform[4] = lats[Len(lats)]
        /\ geotransform[3] = 0
        /\ geotransform[5] = 0
        /\ IF Len(lons) >= 2 THEN Positive(geotransform[2])
                             ELSE geotransform[2].num = 0
        /\ IF Len(lats) >= 2 THEN Negative(geotransform[6])
                             ELSE geotransform[6].num = 0

\* C6 witness: the geotransform of a 3 x 2 grid whose first latitude is not
\* its last.
C6_Witness ==
    /\ geotransform # NoValue
    /\ Len(lons) = 3
    /\ Len(lats) = 2
    /\ lats[1] # lats[2]
    /\ Negative(geotransform[6])

\* the fields get_simulation_details derives from the file name alone
NameTokens == Split(Splitext(Basename(cli.nc_path))[1], "_")

\* C7 as stated: class, name and uid are the first, the middle and the last
\* underscore-separated token of the extension-stripped base name, and every
\* group, class or uid option given on the command line, whatever its
\* value, is the descriptor's field.
C7_OverrideWhateverItsValue ==
    details # NoDetails =>
        /\ details.name = JoinWith("_", Middle(NameTokens))
        /\ cli.product_class = NoValue => details.class = NameTokens[1]
        /\ cli.instance_uid = NoValue => details.uid = NameTokens[Len(NameTokens)]
        /\ cli.product_group # NoValue => details.group = cli.product_group
        /\ cli.product_class # NoValue => details.class = cli.product_class
        /\ cli.instance_uid # NoValue => details.uid = cli.instance_uid

\* C7 amended: class, name and uid are the first, the middle and the last
\* token (moloch_foo_bar_001.nc: moloch, foo_bar, 001), and every group,
\* class or uid option given with a non-empty value is the descriptor's
\* field; an option given as the empty string is treated as not given
\* (group "simulation", class and uid from the file name).
C7_OverrideWhenNonEmpty ==
    details # NoDetails =>
        /\ details.name = JoinWith("_", Middle(NameTokens))
        /\ cli.product_class = NoValue => details.class = NameTokens[1]
        /\ cli.instance_uid = NoValue => details.uid = NameTokens[Len(NameTokens)]
        /\ (cli.nc_path = "moloch_foo_bar_001.nc"
            /\ cli.product_class = NoValue /\ cli.instance_uid = NoValue)
           => /\ details.class = "moloch"
              /\ details.name = "foo_bar"
              /\ details.uid = "001"
        /\ (cli.product_group # NoValue /\ cli.product_group # "")
           => details.group = cli.product_group
        /\ (cli.product_class # NoValue /\ cli.product_class # "")
           => details.class = cli.product_class
        /\ (cli.instance_uid # NoValue /\ cli.instance_uid # "")
           => details.uid = cli.instance_uid
        /\ cli.product_group = "" => details.group = "simulation"
        /\ cli.product_class = "" => details.class = NameTokens[1]
        /\ cli.instance_uid = "" => details.uid = NameTokens[Len(NameTokens)]

\* C7 witness: the descriptor of /in/wrf_x_7.nc with all three options
\* given carries the options, not wrf and 7.
C7_Witness ==
    /\ details # NoDetails
    /\ cli.nc_path = "/in/wrf_x_7.nc"
    /\ cli.product_group = "radar"
    /\ cli.product_class = "bolam"
    /\ cli.instance_uid = "42"
    /\ details.group = "radar"
    /\ details.class = "bolam"
    /\ details.uid = "42"
    /\ details.name = "x"

-----------------------------------------------------------------------------
(* Properties of dump_to_tree *)

\* has this run written the manifest
ManifestOfThisRun ==
    /\ DescPath \in DOMAIN files
    /\ files[DescPath].kind = "manifest"
    /\ files[DescPath].run = run

FailedInLoop == epc = "failed" /\ efail.at = "loop"

\* C2 as stated: the manifest is written only after all four rasters of
\* every time step are written; when a step fails inside the loop the files
\* written so far stay and there is no manifest at
\* <product_root>/description.json.
C2_NoManifestAfterLoopFailure ==
    /\ ManifestOfThisRun => Len(written) = 4 * Len(times)
    /\ FailedInLoop =>
          /\ \A p \in Range(written) : p \in DOMAIN files
          /\ ~(DescPath \in DOMAIN files /\ files[DescPath].kind = "manifest")

\* C2 amended: the manifest is written only after all four rasters of every
\* time step are written; a run that fails inside the loop leaves a
\* partially written set of rasters, rolls nothing back and writes no
\* manifest: description.json is as the run found it, absent on a fresh
\* tree and the earlier run's file on a tree an earlier run has written.
C2_FailedRunWritesNoManifest ==
    /\ ManifestOfThisRun => Len(written) = 4 * Len(times) /\ step > Len(times)
    /\ FailedInLoop =>
          /\ Len(written) < 4 * Len(times)
          /\ \A p \in Range(written) : p \in DOMAIN files /\ files[p].run = run
          /\ DOMAIN prevFiles \subseteq DOMAIN files
          /\ prevDirs \subseteq dirs
          /\ ~ManifestOfThisRun
          /\ DescPath \in DOMAIN files <=> DescPath \in DOMAIN prevFiles
          /\ DescPath \in DOMAIN files => files[DescPath] = prevFiles[DescPath]
          /\ run = 1 => DescPath \notin DOMAIN files

\* C2 witness: the first run on a fresh tree failed at the second raster of
\* the second time step: five rasters, no manifest.
C2_Witness ==
    /\ FailedInLoop
    /\ run = 1
    /\ Len(times) = 2
    /\ Len(written) = 5
    /\ \A p \in Range(written) : p \in DOMAIN files
    /\ DescPath \notin DOMAIN files

RasterNames == <<"tcov", "tprec", "temp2m", "uv10">>

\* the url of the i-th raster a run writes
ExpectedUrl(i) ==
    "https://rest.tdm-project.it/data/tdm/odata/product/meteosim/moloch/foo_bar/001/"
    \o ToDatetime(times[((i - 1) \div 4) + 1]) \o "/4.5:3:1_36.0:3:0.667/"
    \o RasterNames[((i - 1) % 4) + 1] \o ".tif"

C8_RerunOverwritesInPlace ==
    /\ efail.error # "FileExistsError"
    /\ (run >= 2 /\ prevOk /\ epc = "done") =>
          /\ dirs = prevDirs
          /\ DOMAIN files = DOMAIN prevFiles
          /\ \A p \in DOMAIN files :
                /\ files[p].run = run
                /\ files[p].kind = prevFiles[p].kind
          /\ Cardinality({p \in DOMAIN files : files[p].kind = "manifest"}) = 1

\* C8 witness: the second run over two time steps has finished on the tree
\* of a successful first run.
C8_Witness ==
    /\ run = 2
    /\ prevOk
    /\ epc = "done"
    /\ Len(times) = 2
    /\ Cardinality(DOMAIN files) = 9
    /\ DOMAIN files = DOMAIN prevFiles

====
